---- MODULE Spec2Model ----
(***************************************************************************)
(* namakanui_pcand.py: the relay daemon between many TCP clients and the   *)
(* PEAK PCAN-Ethernet gateway, which is reached over two half-channels     *)
(* (lan2can outbound, can2lan inbound).                                    *)
(*                                                                         *)
(* The daemon is one thread of control; `pc` is its position.  Clients,    *)
(* the network and the gateway hardware are the environment and take       *)
(* steps between any two steps of the daemon.                              *)
(*                                                                         *)
(* Byte strings are kept exactly, in run-length form: a byte string is a   *)
(* sequence of segments [src, cl, n, lo, hi], "the bytes lo..hi-1 of the   *)
(* n-th request frame of client cl" (src = "req"), of the hardware's reply *)
(* to that frame (src = "rep"), or of unsolicited hardware data            *)
(* (src = "junk").                                                         *)
(***************************************************************************)
EXTENDS Integers, Sequences, FiniteSets, TLC

\* ---------------------------------------------------------------- bounds
NumClients == 2          \* client processes that may connect
MaxFrames  == 2          \* request frames the clients send in all
FragLen    == 20         \* size of the first fragment when TCP splits a frame
MaxFaults  == 1          \* disturbances in one run: a frame or reply delivered in
                         \* two fragments, a client closing or resetting, the
                         \* gateway closing

\* ------------------------------------------------------ program constants
FrameLen   == 36         \* sock.recv(36), can2lan.recv(36)
DrainLen   == 64         \* ri.recv(64) in the drain loop
ExitError  == 1          \* sys.exit(1); also Python's status for an uncaught exception
Running    == -1         \* no exit status yet: the process is alive

Clients == 1 .. NumClients
ListenerKey == 0         \* the selector key whose data is None (the listener)

\* ------------------------------------------------------------ byte strings
Seg(src, cl, n, lo, hi) == [src |-> src, cl |-> cl, n |-> n, lo |-> lo, hi |-> hi]

RECURSIVE BLen(_)
BLen(b) == IF b = <<>> THEN 0 ELSE (Head(b).hi - Head(b).lo) + BLen(Tail(b))

\* the first k bytes of b (all of b when it is shorter): what recv(k) returns
RECURSIVE BTake(_, _)
BTake(b, k) ==
    IF k <= 0 \/ b = <<>> THEN <<>>
    ELSE LET h == Head(b)
             l == h.hi - h.lo
         IN  IF l <= k THEN <<h>> \o BTake(Tail(b), k - l)
             ELSE << [h EXCEPT !.hi = h.lo + k] >>

\* what stays in the socket buffer after recv(k)
RECURSIVE BDrop(_, _)
BDrop(b, k) ==
    IF k <= 0 \/ b = <<>> THEN b
    ELSE LET h == Head(b)
             l == h.hi - h.lo
         IN  IF l <= k THEN BDrop(Tail(b), k - l)
             ELSE << [h EXCEPT !.lo = h.lo + k] >> \o Tail(b)

\* bytes b appended to the stream a
BCat(a, b) ==
    IF a = <<>> THEN b
    ELSE IF b = <<>> THEN a
    ELSE LET x == a[Len(a)]
             y == Head(b)
         IN  IF x.src = y.src /\ x.cl = y.cl /\ x.n = y.n /\ x.hi = y.lo
             THEN SubSeq(a, 1, Len(a) - 1) \o << [x EXCEPT !.hi = y.hi] >> \o Tail(b)
             ELSE a \o b

\* the n-th 36-byte request frame of client c
Frame(c, n) == << Seg("req", c, n, 0, FrameLen) >>

\* the gateway's answer to a request: as many bytes, each the answer to the
\* request byte at the same place
ReplyTo(msg) == [i \in 1 .. Len(msg) |-> [msg[i] EXCEPT !.src = "rep"]]

\* the 20-byte greeting the simulated gateway sends when it connects back
Greeting == << Seg("junk", 0, 0, 0, 20) >>

\* ------------------------------------------------------------------- state
VARIABLES
    pcan_type,          \* cfg['pcan_type']: "tcp" or "udp"
    pc,                 \* position of the daemon
    exit,               \* exit status of the process, Running while alive
    lan2can,            \* outbound half-channel socket: "none", "open", "closed"
    can2lan_listener,   \* tcp only: "none", "listening", "closed"
    can2lan,            \* inbound half-channel socket: "none", "open", "closed"
    listener,           \* client-facing socket: "none", "listening", "closed"
    registered,         \* sel has the listener registered
    reg,                \* sel: client -> "none", "READ", "WRITE"
    conn,               \* accepted client socket: "none", "open", "closed"
    outb,               \* data.outb of each connection
    events,             \* keys of the current sel.select() result not yet serviced
    key,                \* the client being serviced (ListenerKey when none)
    to_femc,            \* the frame service_connection hands to messenger
    client,             \* the connection as the daemon's kernel sees it: "idle",
                        \*   "open", "fin" (the peer closed), "reset" (reset by
                        \*   the peer), "finreset" (closed, then reset)
    backlog,            \* connections completed by the kernel, not yet accepted
    cin,                \* bytes from each client waiting in the daemon's socket
    nsent,              \* request frames each client has begun to send
    part,               \* bytes of the current frame the client has sent so far
    cout,               \* what the daemon wrote to each client, one entry per sendall
    hw,                 \* gateway: "up" or "closed"
    l2c,                \* bytes sent on lan2can the gateway has not consumed
    wire,               \* bytes the gateway sent on can2lan, still in the network
    c2l,                \* bytes waiting in the daemon's can2lan socket
    used,               \* frames sent and disturbances caused by the environment
    steps,              \* history: the startup operations in the order performed
    creq,               \* history: the full frames read from each client
    csent,              \* history: what was put on lan2can for each client
    crep,               \* history: what messenger returned for each client
    short,              \* history: a read from the client yielded under 36 bytes
    shortb,             \* history: the bytes of that read
    failed,             \* history: a send on lan2can failed, or the reply read
                        \*          yielded zero bytes or timed out
    spun,               \* history: the drain loop read zero bytes from a closed channel
    stale,              \* history: what waited in can2lan when the transaction began
                        \*          (kept until the next write of a reply)
    waited,             \* history: transactions of others completed while a request waits
    \* the vacuum gauge client (namakanui/pfeiffer.py), one call of Pfeiffer.cmd
    pf,                 \* the state of the call, a record of the fields named pf_... below
    \* the cryostat thermometer client (namakanui/lakeshore.py), one call of
    \* Lakeshore.cmd
    ls                  \* the state of the call, a record of the fields named ls_... below

\* position of the call: "off" when the gauge is not modelled
pf_pc == pf.pc
\* the argument c of the call, as bytes
pf_arg == pf.arg
\* c after strip, encode and replace
pf_c == pf.c
\* query: the argument held a question mark
pf_query == pf.query
\* bytes waiting in the socket self.s
pf_in == pf.in
\* bytes the gauge has sent, still in the network
pf_wire == pf.wire
\* the gauge's end of the connection: "up" or "closed"
pf_dev == pf.dev
\* r of reply(): the bytes received so far
pf_r == pf.r
\* history: the payload of each self.s.sendall
pf_sent == pf.sent
\* history: what the gauge answered, one entry per message
pf_answers == pf.answers
\* history: what each call of reply() returned
pf_replies == pf.replies
\* what the call returned
pf_ret == pf.ret
\* self.state['err']
pf_err == pf.err
\* the exception that ended the call
pf_exc == pf.exc
\* history: a recv returned zero bytes and the loop went on
pf_spun == pf.spun

\* position of the call: "off" when it is not modelled
ls_pc == ls.pc
\* the argument c of the call, as bytes
ls_arg == ls.arg
\* self.gpib_addr, or NoGpib when self.gpib is False
ls_gpib == ls.gpib
\* c after strip and encode
ls_c == ls.c
\* the socket s of the call: "none", "open" or "closed"
ls_sock == ls.sock
\* history: the sockets the call has created
ls_opened == ls.opened
\* the instrument: "up", "down" (refuses connections) or "closed" (has
\* closed the connection)
ls_dev == ls.dev
\* bytes waiting in the socket s
ls_in == ls.in
\* bytes the instrument has sent, still in the network
ls_wire == ls.wire
\* r: the bytes received so far
ls_r == ls.r
\* history: the payload of each s.sendall
ls_sent == ls.sent
\* history: what the instrument answered
ls_answers == ls.answers
\* what the call returned
ls_ret == ls.ret
\* the exception that ended the call
ls_exc == ls.exc
\* history: a recv returned zero bytes and the loop went on
ls_spun == ls.spun

vars == << pcan_type, pc, exit, lan2can, can2lan_listener, can2lan, listener,
           registered, reg, conn, outb, events, key, to_femc, client, backlog,
           cin, nsent, part, cout, hw, l2c, wire, c2l, used, steps, creq, csent,
           crep, short, shortb, failed, spun, stale, waited, pf, ls >>

relayVars == << pcan_type, pc, exit, lan2can, can2lan_listener, can2lan, listener,
                registered, reg, conn, outb, events, key, to_femc, client, backlog,
                cin, nsent, part, cout, hw, l2c, wire, c2l, used, steps, creq, csent,
                crep, short, shortb, failed, spun, stale, waited >>
pfVars    == << pf >>
lsVars    == << ls >>

daemonVars == << pc, exit, lan2can, can2lan_listener, can2lan, listener,
                 registered, reg, conn, outb, events, key, to_femc >>
clientVars == << client, backlog, cin, nsent, part >>
logVars    == << creq, csent, crep >>
hwVars     == << hw, l2c, wire, c2l >>
histVars   == << steps, logVars, short, shortb, failed, spun, stale, waited >>

\* --------------------------------------------------------------- control
\* module top level, lines 63-101 and 173-175: the startup operations in
\* program order, then relay()
\* mutant: the client port is bound before the Bus Link is established
StartupOrder_listener_first(t) ==
    IF t = "tcp"
    THEN << "bind_listener", "connect_lan2can", "bind_can2lan", "accept_can2lan", "relay" >>
    ELSE << "bind_listener", "connect_lan2can", "bind_can2lan", "relay" >>

StartupOrder(t) ==
    IF t = "tcp"
    THEN << "connect_lan2can", "bind_can2lan", "accept_can2lan", "bind_listener", "relay" >>
    ELSE << "connect_lan2can", "bind_can2lan", "bind_listener", "relay" >>

StartupPcs == {"connect_lan2can", "bind_can2lan", "accept_can2lan", "bind_listener"}

\* the statement after the startup operation p
NextPc(p) ==
    LET o == StartupOrder(pcan_type)
        i == CHOOSE j \in 1 .. Len(o) : o[j] = p
    IN  o[i + 1]

\* mutant: an exception ends relay() and the script without the finally clause
Raise_return(p) == "exited"

\* mutant: a startup statement wrapped in try/except that carries on
Raise_startup_swallowed(p) ==
    IF p \in StartupPcs
    THEN LET o == StartupOrder(pcan_type)
             i == CHOOSE j \in 1 .. Len(o) : o[j] = p
         IN  o[i + 1]
    ELSE "finally"

\* mutant: relay() catches the exception and goes back to sel.select()
Raise_retry(p) == IF p \in StartupPcs THEN "exited" ELSE "select"

\* where an exception raised at p ends up: nothing catches one raised by a
\* startup statement, so the interpreter exits; one raised inside relay()
\* reaches the finally clause of lines 174-181
Raise(p) == IF p \in StartupPcs THEN "exited" ELSE "finally"

\* the value None
None == [type |-> "None"]

\* no Pfeiffer object exists
PfOff ==
    pf = [pc |-> "off", arg |-> <<>>, c |-> <<>>, query |-> FALSE,
          in |-> <<>>, wire |-> <<>>, dev |-> "up", r |-> <<>>,
          sent |-> <<>>, answers |-> <<>>, replies |-> <<>>,
          ret |-> None, err |-> <<>>, exc |-> "none", spun |-> FALSE]

\* self.gpib is False
NoGpib == 0

\* no Lakeshore object exists
LsOff ==
    ls = [pc |-> "off", arg |-> <<>>, gpib |-> NoGpib, c |-> <<>>,
          sock |-> "none", opened |-> 0, dev |-> "up",
          in |-> <<>>, wire |-> <<>>, r |-> <<>>,
          sent |-> <<>>, answers |-> <<>>,
          ret |-> None, exc |-> "none", spun |-> FALSE]

\* the daemon's script has been started
RelayInit ==
    /\ pcan_type \in {"tcp", "udp"}
    /\ pc = Head(StartupOrder(pcan_type))
    /\ exit = Running
    /\ lan2can = "none"
    /\ can2lan_listener = "none"
    /\ can2lan = "none"
    /\ listener = "none"
    /\ registered = FALSE
    /\ reg = [c \in Clients |-> "none"]
    /\ conn = [c \in Clients |-> "none"]
    /\ outb = [c \in Clients |-> <<>>]
    /\ events = {}
    /\ key = ListenerKey
    /\ to_femc = <<>>
    /\ client = [c \in Clients |-> "idle"]
    /\ backlog = <<>>
    /\ cin = [c \in Clients |-> <<>>]
    /\ nsent = [c \in Clients |-> 0]
    /\ part = [c \in Clients |-> 0]
    /\ cout = [c \in Clients |-> <<>>]
    /\ hw = "up"
    /\ l2c = <<>>
    /\ wire = <<>>
    /\ c2l = <<>>
    /\ steps = <<>>
    /\ used = [frames |-> 0, fault |-> 0]
    /\ creq = [c \in Clients |-> <<>>]
    /\ csent = [c \in Clients |-> <<>>]
    /\ crep = [c \in Clients |-> <<>>]
    /\ short = [c \in Clients |-> FALSE]
    /\ shortb = [c \in Clients |-> <<>>]
    /\ failed = FALSE
    /\ spun = FALSE
    /\ stale = <<>>
    /\ waited = [c \in Clients |-> 0]

Init == RelayInit /\ PfOff /\ LsOff

\* ----------------------------------------------------------------- startup
\* an exception in a startup statement: the process ends with status 1 and
\* the sockets created so far are left as they are
StartupError ==
    /\ pc \in StartupPcs
    /\ pc' = Raise(pc)
    /\ exit' = IF Raise(pc) = "exited" THEN ExitError ELSE exit
    /\ steps' = Append(steps, "error")
    /\ UNCHANGED << pcan_type, lan2can, can2lan_listener, can2lan, listener,
                    registered, reg, conn, outb, events, key, to_femc >>
    /\ UNCHANGED << clientVars, cout, hwVars, used, logVars, short, shortb, failed, spun, stale, waited >>
    /\ UNCHANGED pfVars
    /\ UNCHANGED lsVars

\* lines 64-72: lan2can.connect((lan2can_ip, lan2can_port))
ConnectLan2can ==
    /\ pc = "connect_lan2can"
    /\ hw = "up"
    /\ lan2can' = "open"
    /\ pc' = NextPc(pc)
    /\ steps' = Append(steps, "connect_lan2can")
    /\ UNCHANGED << pcan_type, exit, can2lan_listener, can2lan, listener,
                    registered, reg, conn, outb, events, key, to_femc >>
    /\ UNCHANGED << clientVars, cout, hwVars, used, logVars, short, shortb, failed, spun, stale, waited >>
    /\ UNCHANGED pfVars
    /\ UNCHANGED lsVars

\* lines 76-82 (tcp): bind and listen on can2lan_port;
\* lines 88-92 (udp): the bound datagram socket is the half-channel itself,
\* and what the gateway has already sent to the port is waiting in it
BindCan2lan ==
    /\ pc = "bind_can2lan"
    /\ IF pcan_type = "tcp"
       THEN /\ can2lan_listener' = "listening"
            /\ UNCHANGED << can2lan, c2l >>
       ELSE /\ can2lan' = "open"
            /\ c2l' \in {<<>>, Greeting}
            /\ UNCHANGED can2lan_listener
    /\ pc' = NextPc(pc)
    /\ steps' = Append(steps, "bind_can2lan")
    /\ UNCHANGED << pcan_type, exit, lan2can, listener,
                    registered, reg, conn, outb, events, key, to_femc >>
    /\ UNCHANGED << clientVars, cout, hw, l2c, wire, used, logVars, short, shortb, failed, spun, stale, waited >>
    /\ UNCHANGED pfVars
    /\ UNCHANGED lsVars

\* lines 83-86: accept the gateway's connection, close the accept point.
\* The simulated gateway sends a greeting as soon as it has connected.
AcceptCan2lan ==
    /\ pc = "accept_can2lan"
    /\ can2lan_listener = "listening"
    /\ hw = "up"
    /\ can2lan' = "open"
    /\ can2lan_listener' = "closed"
    /\ c2l' \in {<<>>, Greeting}
    /\ pc' = NextPc(pc)
    /\ steps' = Append(steps, "accept_can2lan")
    /\ UNCHANGED << pcan_type, exit, lan2can, listener,
                    registered, reg, conn, outb, events, key, to_femc >>
    /\ UNCHANGED << clientVars, cout, hw, l2c, wire, used, logVars, short, shortb, failed, spun, stale, waited >>
    /\ UNCHANGED pfVars
    /\ UNCHANGED lsVars

\* lines 98-101: bind and listen on pcand_port
BindListener ==
    /\ pc = "bind_listener"
    /\ listener' = "listening"
    /\ pc' = NextPc(pc)
    /\ steps' = Append(steps, "bind_listener")
    /\ UNCHANGED << pcan_type, exit, lan2can, can2lan_listener, can2lan,
                    registered, reg, conn, outb, events, key, to_femc >>
    /\ UNCHANGED << clientVars, cout, hwVars, used, logVars, short, shortb, failed, spun, stale, waited >>
    /\ UNCHANGED pfVars
    /\ UNCHANGED lsVars

\* lines 125-128: relay() creates the selector and registers the listener
RelayStart ==
    /\ pc = "relay"
    /\ registered' = TRUE
    /\ pc' = "select"
    /\ UNCHANGED << pcan_type, exit, lan2can, can2lan_listener, can2lan, listener,
                    reg, conn, outb, events, key, to_femc >>
    /\ UNCHANGED << clientVars, cout, hwVars, used, histVars >>
    /\ UNCHANGED pfVars
    /\ UNCHANGED lsVars

\* ------------------------------------------------------------- relay loop
\* mutant: a connection registered for EVENT_WRITE is never reported
Ready_reads_only(k) ==
    IF k = ListenerKey
    THEN registered /\ backlog # <<>>
    ELSE reg[k] = "READ" /\ (cin[k] # <<>> \/ client[k] \in {"fin", "reset", "finreset"})

\* what sel.select() reports for key k: the listener when a connection waits
\* to be accepted; a connection registered for EVENT_READ when bytes, an
\* end of stream or an error wait in its socket; one registered for
\* EVENT_WRITE always (the reply fits the send buffer, and an error
\* condition is reported as writable too)
Ready(k) ==
    IF k = ListenerKey
    THEN registered /\ backlog # <<>>
    ELSE \/ reg[k] = "READ" /\ (cin[k] # <<>> \/ client[k] \in {"fin", "reset", "finreset"})
         \/ reg[k] = "WRITE"

ReadySet == {k \in {ListenerKey} \cup Clients : Ready(k)}

\* line 166: events = sel.select(), which blocks until something is ready
Select ==
    /\ pc = "select"
    /\ ReadySet # {}
    /\ events' = ReadySet
    /\ pc' = "dispatch"
    /\ UNCHANGED << pcan_type, exit, lan2can, can2lan_listener, can2lan, listener,
                    registered, reg, conn, outb, key, to_femc >>
    /\ UNCHANGED << clientVars, cout, hwVars, used, histVars >>
    /\ UNCHANGED pfVars
    /\ UNCHANGED lsVars

\* mutant: the for loop is left after any number of events
NextRound_early ==
    /\ pc = "dispatch"
    /\ pc' = "select"
    /\ UNCHANGED << pcan_type, exit, lan2can, can2lan_listener, can2lan, listener,
                    registered, reg, conn, outb, events, key, to_femc >>
    /\ UNCHANGED << clientVars, cout, hwVars, used, histVars >>
    /\ UNCHANGED pfVars
    /\ UNCHANGED lsVars

\* lines 165, 167: the for loop is over, back to sel.select()
NextRound ==
    /\ pc = "dispatch"
    /\ events = {}
    /\ pc' = "select"
    /\ UNCHANGED << pcan_type, exit, lan2can, can2lan_listener, can2lan, listener,
                    registered, reg, conn, outb, events, key, to_femc >>
    /\ UNCHANGED << clientVars, cout, hwVars, used, histVars >>
    /\ UNCHANGED pfVars
    /\ UNCHANGED lsVars

\* mutant: a fresh connection registered for write readiness
EventsOnAccept_write == "WRITE"

\* line 135: events = selectors.EVENT_READ
EventsOnAccept == "READ"

\* lines 130-136, reached from line 169
accept_wrapper ==
    /\ pc = "dispatch"
    /\ ListenerKey \in events
    /\ events' = events \ {ListenerKey}
    /\ LET c == Head(backlog)
       IN  /\ backlog' = Tail(backlog)
           /\ conn' = [conn EXCEPT ![c] = "open"]
           /\ outb' = [outb EXCEPT ![c] = <<>>]
           /\ reg' = [reg EXCEPT ![c] = EventsOnAccept]
    /\ steps' = IF \E i \in 1 .. Len(steps) : steps[i] = "accept_client"
                THEN steps ELSE Append(steps, "accept_client")
    /\ UNCHANGED << pcan_type, pc, exit, lan2can, can2lan_listener, can2lan, listener,
                    registered, key, to_femc >>
    /\ UNCHANGED << client, cin, nsent, part, cout, hwVars, used, logVars, short, shortb,
                    failed, spun, stale, waited >>
    /\ UNCHANGED pfVars
    /\ UNCHANGED lsVars

\* mutant: only an empty read drops the client
IsShort_only_empty(b) == BLen(b) = 0

\* line 149: if len(to_femc) < 36
IsShort(b) == BLen(b) < FrameLen

\* mutant: the dropped connection stays in the selector
Unregister_missing(r, c) == r

\* line 151: sel.unregister(sock)
Unregister(r, c) == [r EXCEPT ![c] = "none"]

\* a reset connection is no longer connected: sock.getpeername() raises
Reset(c) == client[c] \in {"reset", "finreset"}

\* lines 141-155, the EVENT_READ branch up to the call of messenger.
\* sock.recv(36) returns what is buffered, up to 36 bytes; with nothing
\* buffered it returns b'' once the peer has closed and raises when the
\* connection was reset without a close.  On a reset connection the
\* sock.getpeername() of line 145 raises, the except clause of line 146
\* takes that for a recv error and calls sock.getpeername() again, and
\* nothing catches this second exception.
service_connection_read(c) ==
    /\ pc = "dispatch"
    /\ c \in events
    /\ reg[c] = "READ"
    /\ events' = events \ {c}
    /\ LET data == BTake(cin[c], FrameLen)
           recv_raises == client[c] = "reset" /\ cin[c] = <<>>
       IN  /\ cin' = [cin EXCEPT ![c] = BDrop(cin[c], FrameLen)]
           /\ short' = [short EXCEPT ![c] = ~ recv_raises /\ BLen(data) < FrameLen]
           /\ shortb' = [shortb EXCEPT ![c] =
                           IF ~ recv_raises /\ BLen(data) < FrameLen THEN data ELSE @]
           /\ IF Reset(c)
              THEN /\ pc' = Raise(pc)
                   /\ creq' = IF IsShort(data) THEN creq
                              ELSE [creq EXCEPT ![c] = Append(@, data)]
                   /\ UNCHANGED << reg, conn, key, to_femc, stale, waited >>
              ELSE IF IsShort(data)
              THEN /\ reg' = Unregister(reg, c)
                   /\ conn' = [conn EXCEPT ![c] = "closed"]
                   /\ UNCHANGED << pc, key, to_femc, creq, stale, waited >>
              ELSE /\ key' = c
                   /\ to_femc' = data
                   /\ creq' = [creq EXCEPT ![c] = Append(@, data)]
                   /\ stale' = c2l
                   /\ waited' = [waited EXCEPT ![c] = 0]
                   /\ pc' = "drain"
                   /\ UNCHANGED << reg, conn >>
    /\ UNCHANGED << pcan_type, exit, lan2can, can2lan_listener, can2lan, listener,
                    registered, outb >>
    /\ UNCHANGED << client, backlog, nsent, part, cout, hwVars, used, steps,
                    csent, crep, failed, spun >>
    /\ UNCHANGED pfVars
    /\ UNCHANGED lsVars

\* lines 157-163, the EVENT_WRITE branch.  sock.sendall raises on a reset
\* connection.  Data written to a peer that has closed is answered with a
\* reset, unless the peer only shut down its sending side; when the reset
\* is back before line 160 runs, its sock.getpeername() raises.
service_connection_write(c) ==
    /\ pc = "dispatch"
    /\ c \in events
    /\ reg[c] = "WRITE"
    /\ events' = events \ {c}
    /\ IF outb[c] = <<>>
       THEN /\ reg' = [reg EXCEPT ![c] = "READ"]
            /\ UNCHANGED << pc, outb, cout, client >>
       ELSE IF Reset(c)
       THEN /\ pc' = Raise(pc)
            /\ UNCHANGED << reg, outb, cout, client >>
       ELSE /\ cout' = [cout EXCEPT ![c] = Append(@, outb[c])]
            /\ \/ /\ outb' = [outb EXCEPT ![c] = <<>>]
                  /\ reg' = [reg EXCEPT ![c] = "READ"]
                  /\ pc' = pc
                  /\ IF client[c] = "fin"
                     THEN \E st \in {"fin", "finreset"} :
                              client' = [client EXCEPT ![c] = st]
                     ELSE UNCHANGED client
               \/ /\ client[c] = "fin"
                  /\ client' = [client EXCEPT ![c] = "finreset"]
                  /\ pc' = Raise(pc)
                  /\ UNCHANGED << reg, outb >>
    /\ stale' = <<>>
    /\ UNCHANGED waited
    /\ UNCHANGED << pcan_type, exit, lan2can, can2lan_listener, can2lan, listener,
                    registered, conn, key, to_femc >>
    /\ UNCHANGED << backlog, cin, nsent, part, hwVars, used, steps, logVars, short,
                    shortb, failed, spun >>
    /\ UNCHANGED pfVars
    /\ UNCHANGED lsVars

\* ---------------------------------------------------------------- messenger
\* a closed stream socket is readable for good and recv on it returns b''
Lan2canEof == pcan_type = "tcp" /\ hw = "closed"
Can2lanEof == pcan_type = "tcp" /\ hw = "closed" /\ wire = <<>> /\ c2l = <<>>

\* what recv(k) takes out of the inbound socket: up to k bytes of the stream
\* (tcp), or one datagram cut to k bytes, the rest of it lost (udp)
RecvBytes(b, k) == IF pcan_type = "tcp" THEN BTake(b, k) ELSE BTake(<< Head(b) >>, k)
RecvRest(b, k)  == IF pcan_type = "tcp" THEN BDrop(b, k) ELSE Tail(b)

\* lines 106-109: one ri.recv(64) of the drain loop that finds data
messenger_drain ==
    /\ pc = "drain"
    /\ c2l # <<>>
    /\ c2l' = RecvRest(c2l, DrainLen)
    /\ UNCHANGED << daemonVars, pcan_type, clientVars, cout, hw, l2c, wire, used, histVars >>
    /\ UNCHANGED pfVars
    /\ UNCHANGED lsVars

\* lines 106-109: select reports a closed half-channel readable every time
\* and recv returns b'', so the loop goes round without an end
messenger_drain_eof ==
    /\ pc = "drain"
    /\ Lan2canEof
    /\ c2l = <<>>
    /\ spun' = TRUE
    /\ UNCHANGED << daemonVars, pcan_type, clientVars, cout, hwVars, used,
                    steps, logVars, short, shortb, failed, stale, waited >>
    /\ UNCHANGED pfVars
    /\ UNCHANGED lsVars

\* mutant: messenger without the drain loop
messenger_drained_skip ==
    /\ pc = "drain"
    /\ ~ Lan2canEof
    /\ pc' = "send"
    /\ UNCHANGED << pcan_type, exit, lan2can, can2lan_listener, can2lan, listener,
                    registered, reg, conn, outb, events, key, to_femc >>
    /\ UNCHANGED << clientVars, cout, hwVars, used, histVars >>
    /\ UNCHANGED pfVars
    /\ UNCHANGED lsVars

\* line 107: select finds nothing readable, the loop ends
messenger_drained ==
    /\ pc = "drain"
    /\ c2l = <<>>
    /\ ~ Lan2canEof
    /\ pc' = "send"
    /\ UNCHANGED << pcan_type, exit, lan2can, can2lan_listener, can2lan, listener,
                    registered, reg, conn, outb, events, key, to_femc >>
    /\ UNCHANGED << clientVars, cout, hwVars, used, histVars >>
    /\ UNCHANGED pfVars
    /\ UNCHANGED lsVars

\* mutant: a single send() that the socket cuts short
Sendall_truncated(chan, msg) == BCat(chan, BTake(msg, FragLen))

\* line 113: lan2can.sendall(msg) puts all of msg on the outbound channel
Sendall(chan, msg) == BCat(chan, msg)

\* mutant: messenger goes on to wait for a reply without sending the frame
messenger_send_skipped ==
    /\ pc = "send"
    /\ pc' = "recv_reply"
    /\ UNCHANGED << pcan_type, exit, lan2can, can2lan_listener, can2lan, listener,
                    registered, reg, conn, outb, events, key, to_femc >>
    /\ UNCHANGED << clientVars, cout, hwVars, used, histVars >>
    /\ UNCHANGED pfVars
    /\ UNCHANGED lsVars

\* lines 111-113: the frame goes out on lan2can
messenger_send ==
    /\ pc = "send"
    /\ l2c' = Sendall(l2c, to_femc)
    /\ csent' = [csent EXCEPT ![key] = Append(@, BDrop(l2c', BLen(l2c)))]
    /\ pc' = "recv_reply"
    /\ UNCHANGED << pcan_type, exit, lan2can, can2lan_listener, can2lan, listener,
                    registered, reg, conn, outb, events, key, to_femc >>
    /\ UNCHANGED << clientVars, cout, hw, wire, c2l, used, steps, creq, crep,
                    short, shortb, failed, spun, stale, waited >>
    /\ UNCHANGED pfVars
    /\ UNCHANGED lsVars

\* line 113 raises: the gateway has closed or refused the outbound channel
messenger_send_error ==
    /\ pc = "send"
    /\ hw = "closed"
    /\ failed' = TRUE
    /\ pc' = Raise(pc)
    /\ UNCHANGED << pcan_type, exit, lan2can, can2lan_listener, can2lan, listener,
                    registered, reg, conn, outb, events, key, to_femc >>
    /\ UNCHANGED << clientVars, cout, hwVars, used, steps, logVars, short,
                    shortb, spun, stale, waited >>
    /\ UNCHANGED pfVars
    /\ UNCHANGED lsVars

\* mutant: the check for an empty packet is missing
LostConnection_never(packet) == FALSE

\* line 119: if not packet
LostConnection(packet) == packet = <<>>

\* mutant: one reply buffer for all connections
StoreReply_shared(o, k, packet) == [d \in Clients |-> packet]

\* mutant: the reply is not kept for the write
StoreReply_dropped(o, k, packet) == o

\* line 154: data.outb = messenger(to_femc)
StoreReply(o, k, packet) == [o EXCEPT ![k] = packet]

\* mutant: the connection stays registered for reading after a transaction
EventsAfterTransact_read == "READ"

\* line 155: sel.modify(sock, selectors.EVENT_WRITE, data=data)
EventsAfterTransact == "WRITE"

\* a request of client c is ready: a whole frame waits in its socket and c
\* is registered for EVENT_READ
Waiting(c) == reg[c] = "READ" /\ BLen(cin[c]) >= FrameLen

\* lines 117-123 and 154-155: the packet can2lan.recv(36) returns, or b''
\* at the end of the stream; a packet is stored in data.outb and the
\* connection is switched to EVENT_WRITE
messenger_recv ==
    /\ pc = "recv_reply"
    /\ c2l # <<>> \/ Can2lanEof
    /\ LET packet == IF c2l # <<>> THEN RecvBytes(c2l, FrameLen) ELSE <<>>
       IN  /\ c2l' = IF c2l # <<>> THEN RecvRest(c2l, FrameLen) ELSE c2l
           /\ failed' = (failed \/ BLen(packet) = 0)
           /\ IF LostConnection(packet)
              THEN /\ pc' = Raise(pc)
                   /\ UNCHANGED << outb, reg, key, to_femc, crep, waited >>
              ELSE /\ outb' = StoreReply(outb, key, packet)
                   /\ reg' = [reg EXCEPT ![key] = EventsAfterTransact]
                   /\ crep' = [crep EXCEPT ![key] = Append(@, packet)]
                   /\ waited' = [c \in Clients |->
                                   IF c # key /\ Waiting(c) THEN waited[c] + 1
                                   ELSE waited[c]]
                   /\ key' = ListenerKey
                   /\ to_femc' = <<>>
                   /\ pc' = "dispatch"
    /\ UNCHANGED << pcan_type, exit, lan2can, can2lan_listener, can2lan, listener,
                    registered, conn, events >>
    /\ UNCHANGED << clientVars, cout, hw, l2c, wire, used, steps, creq, csent,
                    short, shortb, spun, stale >>
    /\ UNCHANGED pfVars
    /\ UNCHANGED lsVars

\* line 117 raises socket.timeout: nothing arrived within can2lan's timeout
messenger_recv_timeout ==
    /\ pc = "recv_reply"
    /\ c2l = <<>>
    /\ failed' = TRUE
    /\ pc' = Raise(pc)
    /\ UNCHANGED << pcan_type, exit, lan2can, can2lan_listener, can2lan, listener,
                    registered, reg, conn, outb, events, key, to_femc >>
    /\ UNCHANGED << clientVars, cout, hwVars, used, steps, logVars, short,
                    shortb, spun, stale, waited >>
    /\ UNCHANGED pfVars
    /\ UNCHANGED lsVars

\* lines 176-181: the finally clause closes the three module-level sockets
\* and exits; the accepted connections are known to relay()'s selector only
\* and are not closed here
Finally ==
    /\ pc = "finally"
    /\ listener' = "closed"
    /\ lan2can' = "closed"
    /\ can2lan' = "closed"
    /\ exit' = ExitError
    /\ pc' = "exited"
    /\ UNCHANGED << pcan_type, can2lan_listener, registered, reg, conn, outb,
                    events, key, to_femc >>
    /\ UNCHANGED << clientVars, cout, hwVars, used, histVars >>
    /\ UNCHANGED pfVars
    /\ UNCHANGED lsVars

\* ------------------------------------------------------------- environment
\* a client process connects (ding, line 182 of pcand-sim-test.py); the
\* kernel completes the connection as soon as the port listens.  Clients
\* are interchangeable, so they are numbered in the order they connect.
ClientConnect(c) ==
    /\ pc # "exited"
    /\ listener = "listening"
    /\ client[c] = "idle"
    /\ \A d \in Clients : d < c => client[d] # "idle"
    /\ client' = [client EXCEPT ![c] = "open"]
    /\ backlog' = Append(backlog, c)
    /\ UNCHANGED << daemonVars, pcan_type, cin, nsent, part, cout, hwVars, used,
                    histVars >>
    /\ UNCHANGED pfVars
    /\ UNCHANGED lsVars

\* a client sends its next frame (ding, line 188) and it arrives whole
ClientSend(c) ==
    /\ pc # "exited"
    /\ client[c] = "open"
    /\ conn[c] # "closed"
    /\ part[c] = 0
    /\ used.frames < MaxFrames
    /\ used' = [used EXCEPT !.frames = @ + 1]
    /\ nsent' = [nsent EXCEPT ![c] = @ + 1]
    /\ cin' = [cin EXCEPT ![c] = BCat(@, Frame(c, nsent[c] + 1))]
    /\ UNCHANGED << daemonVars, pcan_type, client, backlog, part, cout, hwVars,
                    histVars >>
    /\ UNCHANGED pfVars
    /\ UNCHANGED lsVars

\* a client sends its next frame and only the first FragLen bytes arrive
ClientSendFragment(c) ==
    /\ pc # "exited"
    /\ client[c] = "open"
    /\ conn[c] # "closed"
    /\ part[c] = 0
    /\ used.frames < MaxFrames
    /\ used.fault < MaxFaults
    /\ FragLen < FrameLen
    /\ used' = [used EXCEPT !.frames = @ + 1, !.fault = @ + 1]
    /\ nsent' = [nsent EXCEPT ![c] = @ + 1]
    /\ cin' = [cin EXCEPT ![c] = BCat(@, BTake(Frame(c, nsent[c] + 1), FragLen))]
    /\ part' = [part EXCEPT ![c] = FragLen]
    /\ UNCHANGED << daemonVars, pcan_type, client, backlog, cout, hwVars, histVars >>
    /\ UNCHANGED pfVars
    /\ UNCHANGED lsVars

\* the rest of a fragmented frame arrives
ClientSendRest(c) ==
    /\ pc # "exited"
    /\ client[c] = "open"
    /\ conn[c] # "closed"
    /\ part[c] > 0
    /\ cin' = [cin EXCEPT ![c] =
                 BCat(@, << Seg("req", c, nsent[c], part[c], FrameLen) >>)]
    /\ part' = [part EXCEPT ![c] = 0]
    /\ UNCHANGED << daemonVars, pcan_type, client, backlog, nsent, cout, hwVars,
                    used, histVars >>
    /\ UNCHANGED pfVars
    /\ UNCHANGED lsVars

\* the client closes its socket in an orderly way
ClientClose(c) ==
    /\ pc # "exited"
    /\ client[c] = "open"
    /\ conn[c] # "closed"
    /\ used.fault < MaxFaults
    /\ used' = [used EXCEPT !.fault = @ + 1]
    /\ client' = [client EXCEPT ![c] = "fin"]
    /\ UNCHANGED << daemonVars, pcan_type, backlog, cin, nsent, part, cout, hwVars,
                    histVars >>
    /\ UNCHANGED pfVars
    /\ UNCHANGED lsVars

\* the client aborts the connection; what it sent before stays readable
ClientReset(c) ==
    /\ pc # "exited"
    /\ client[c] = "open"
    /\ conn[c] # "closed"
    /\ used.fault < MaxFaults
    /\ used' = [used EXCEPT !.fault = @ + 1]
    /\ client' = [client EXCEPT ![c] = "reset"]
    /\ UNCHANGED << daemonVars, pcan_type, backlog, cin, nsent, part, cout, hwVars,
                    histVars >>
    /\ UNCHANGED pfVars
    /\ UNCHANGED lsVars

\* the gateway takes one request off lan2can and answers it on can2lan
\* (PCAN.read and PCAN.send, lines 33-48 of pcand-sim-test.py)
HwReply ==
    /\ pc # "exited"
    /\ hw = "up"
    /\ BLen(l2c) >= FrameLen
    /\ wire' = BCat(wire, ReplyTo(BTake(l2c, FrameLen)))
    /\ l2c' = BDrop(l2c, FrameLen)
    /\ UNCHANGED << daemonVars, pcan_type, clientVars, cout, hw, c2l, used, histVars >>
    /\ UNCHANGED pfVars
    /\ UNCHANGED lsVars

\* the network delivers the next reply whole
Deliver ==
    /\ pc # "exited"
    /\ wire # <<>>
    /\ LET k == BLen(RecvBytes(wire, FrameLen))
       IN  /\ c2l' = (IF pcan_type = "tcp" THEN BCat(c2l, BTake(wire, k))
                      ELSE c2l \o << Head(wire) >>)
           /\ wire' = RecvRest(wire, k)
    /\ UNCHANGED << daemonVars, pcan_type, clientVars, cout, hw, l2c, used, histVars >>
    /\ UNCHANGED pfVars
    /\ UNCHANGED lsVars

\* the network delivers only the first FragLen bytes of the stream now
DeliverFragment ==
    /\ pc # "exited"
    /\ pcan_type = "tcp"
    /\ BLen(wire) > FragLen
    /\ used.fault < MaxFaults
    /\ used' = [used EXCEPT !.fault = @ + 1]
    /\ c2l' = BCat(c2l, BTake(wire, FragLen))
    /\ wire' = BDrop(wire, FragLen)
    /\ UNCHANGED << daemonVars, pcan_type, clientVars, cout, hw, l2c, histVars >>
    /\ UNCHANGED pfVars
    /\ UNCHANGED lsVars

\* the gateway closes both half-channels
HwClose ==
    /\ pc # "exited"
    /\ hw = "up"
    /\ used.fault < MaxFaults
    /\ used' = [used EXCEPT !.fault = @ + 1]
    /\ hw' = "closed"
    /\ UNCHANGED << daemonVars, pcan_type, clientVars, cout, l2c, wire, c2l, histVars >>
    /\ UNCHANGED pfVars
    /\ UNCHANGED lsVars

\* ----------------------------------------------------------- specification
Daemon ==
    \/ StartupError \/ ConnectLan2can \/ BindCan2lan \/ AcceptCan2lan
    \/ BindListener \/ RelayStart
    \/ Select \/ NextRound \/ accept_wrapper
    \/ \E c \in Clients : service_connection_read(c)
    \/ \E c \in Clients : service_connection_write(c)
    \/ messenger_drain \/ messenger_drain_eof \/ messenger_drained
    \/ messenger_send \/ messenger_send_error
    \/ messenger_recv \/ messenger_recv_timeout
    \/ Finally

Environment ==
    \/ \E c \in Clients : ClientConnect(c)
    \/ \E c \in Clients : ClientSend(c)
    \/ \E c \in Clients : ClientSendFragment(c)
    \/ \E c \in Clients : ClientSendRest(c)
    \/ \E c \in Clients : ClientClose(c)
    \/ \E c \in Clients : ClientReset(c)
    \/ HwReply \/ Deliver \/ DeliverFragment \/ HwClose

Next == Daemon \/ Environment

Spec == Init /\ [][Next]_vars

\* the daemon is a running process: a step it can take, it takes.  Its
\* peers (clients, network, gateway) are under no obligation.
FairSpec == Spec /\ WF_vars(Daemon)

TypeOK ==
    /\ pc \in StartupPcs \cup {"relay", "select", "dispatch", "drain", "send",
                               "recv_reply", "finally", "exited"}
    /\ exit \in {Running, ExitError}
    /\ waited \in [Clients -> 0 .. NumClients]
    /\ \A c \in Clients :
          /\ reg[c] \in {"none", "READ", "WRITE"}
          /\ conn[c] \in {"none", "open", "closed"}
          /\ client[c] \in {"idle", "open", "fin", "reset", "finreset"}
          /\ BLen(outb[c]) <= FrameLen
    /\ key \in Clients \cup {ListenerKey}
    /\ BLen(to_femc) \in {0, FrameLen}
    /\ used.frames <= MaxFrames /\ used.fault <= MaxFaults

\* ---------------------------------------------- namakanui/pfeiffer.py: cmd
\* bytes are numbers; lines 32-35: the flow control characters
etx == 3
enq == 5
ack == 6
nak == 21

CR == 13
LF == 10
QuestionMark == 63

\* line 158 and line 171: recv(64)
PfRecvLen == 64

\* the characters strip() takes off both ends
Whitespace == {9, 10, 11, 12, 13, 32}

RECURSIVE LStrip(_)
LStrip(b) == IF b # <<>> /\ Head(b) \in Whitespace THEN LStrip(Tail(b)) ELSE b

RECURSIVE RStrip(_)
RStrip(b) ==
    IF b # <<>> /\ b[Len(b)] \in Whitespace THEN RStrip(SubSeq(b, 1, Len(b) - 1)) ELSE b

\* lines 159 and 164: strip()
Strip(b) == RStrip(LStrip(b))

\* line 167: query = b'?' in c
IsQuery(c) == \E i \in 1 .. Len(c) : c[i] = QuestionMark

\* mutant: the command is sent as it was given
RemoveQuery_kept(c) == c

\* line 168: c = c.replace(b'?', b'')
RemoveQuery(c) == SelectSeq(c, LAMBDA x : x # QuestionMark)

\* line 157: b'\r\n' in r
HasCRLF(r) == \E i \in 1 .. Len(r) - 1 : r[i] = CR /\ r[i + 1] = LF

\* line 191: r.decode() makes a str of the bytes (the gauge sends ASCII)
Decode(r) == [type |-> "str", chars |-> r]

\* what recv(64) returns and what it leaves in the socket
PfRecv(b) == SubSeq(b, 1, IF Len(b) < PfRecvLen THEN Len(b) ELSE PfRecvLen)
PfRest(b) == SubSeq(b, Len(PfRecv(b)) + 1, Len(b))

\* the arguments of the calls: 'PR1?' (line 139), 'UNI,0' (line 119) and a
\* query with white space around it, ' PR2?\n'
Commands == { << 80, 82, 49, 63 >>, << 85, 78, 73, 44, 48 >>,
              << 32, 80, 82, 50, 63, 10 >> }

\* what may wait in the socket when cmd is called: nothing, or a line left
\* over from before
StaleInputs == { <<>>, << 88, CR, LF >> }

\* the gauge's answers: to a command ACK, NAK or something else; to ENQ the
\* value asked for, or the error word after a NAK
AckLine   == << ack, CR, LF >>
NakLine   == << nak, CR, LF >>
OtherLine == << 88, CR, LF >>
ValueLine == << 48, 44, 49, CR, LF >>
ErrorLine == << 48, 49, 48, 48, CR, LF >>

\* the end of the stream is all that is left to read from the socket
PfEof == pf_in = <<>> /\ pf_wire = <<>> /\ pf_dev = "closed"

\* a call of cmd(c) begins
PfInit ==
    /\ RelayInit /\ pcan_type = "tcp" /\ LsOff
    /\ \E a \in Commands, i \in StaleInputs :
          pf = [pc |-> "call", arg |-> a, in |-> i,
                c |-> <<>>, query |-> FALSE,
                wire |-> <<>>, dev |-> "up", r |-> <<>>,
                sent |-> <<>>, answers |-> <<>>, replies |-> <<>>,
                ret |-> None, err |-> <<>>, exc |-> "none", spun |-> FALSE]

\* lines 164-168
PfCall ==
    /\ pf_pc = "call"
    /\ pf' = [pf EXCEPT !.query = IsQuery(Strip(pf_arg)),
                        !.c = RemoveQuery(Strip(pf_arg)),
                        !.pc = "clear" ]
    /\ UNCHANGED relayVars
    /\ UNCHANGED lsVars

\* lines 170-171: the socket is readable and recv(64) takes what is there
PfClear ==
    /\ pf_pc = "clear"
    /\ pf_in # <<>>
    /\ pf' = [pf EXCEPT !.in = PfRest(pf_in) ]
    /\ UNCHANGED relayVars
    /\ UNCHANGED lsVars

\* lines 170-171: a socket at the end of its stream is readable every time
\* and recv returns b'', so the loop goes round again
PfClearEof ==
    /\ pf_pc = "clear"
    /\ PfEof
    /\ pf' = [pf EXCEPT !.spun = TRUE ]
    /\ UNCHANGED relayVars
    /\ UNCHANGED lsVars

\* lines 170, 172: nothing is readable; the command goes out with CR LF
PfSendCmd ==
    /\ pf_pc = "clear"
    /\ pf_in = <<>>
    /\ ~ PfEof
    /\ pf' = [pf EXCEPT !.sent = Append(pf_sent, pf_c \o << CR, LF >>),
                        !.r = <<>>,
                        !.pc = "ack" ]
    /\ UNCHANGED relayVars
    /\ UNCHANGED lsVars

\* lines 156-158: recv(64) returns bytes and r still holds no CR LF
PfRecvMore ==
    /\ pf_pc \in {"ack", "error", "value"}
    /\ pf_in # <<>>
    /\ ~ HasCRLF(pf_r \o PfRecv(pf_in))
    /\ pf' = [pf EXCEPT !.r = pf_r \o PfRecv(pf_in),
                        !.in = PfRest(pf_in) ]
    /\ UNCHANGED relayVars
    /\ UNCHANGED lsVars

\* lines 156-158: recv returns b'' at the end of the stream, r stays as it
\* is and the loop goes round again
PfRecvEof ==
    /\ pf_pc \in {"ack", "error", "value"}
    /\ PfEof
    /\ pf' = [pf EXCEPT !.spun = TRUE ]
    /\ UNCHANGED relayVars
    /\ UNCHANGED lsVars

\* line 158 raises socket.timeout: nothing arrived within self.timeout
PfRecvTimeout ==
    /\ pf_pc \in {"ack", "error", "value"}
    /\ pf_in = <<>>
    /\ ~ PfEof
    /\ pf' = [pf EXCEPT !.pc = "raised",
                        !.exc = "timeout" ]
    /\ UNCHANGED relayVars
    /\ UNCHANGED lsVars

\* the recv of line 158 that completes a line, and what reply() returns
PfLine == pf_in # <<>> /\ HasCRLF(pf_r \o PfRecv(pf_in))
PfReply == Strip(pf_r \o PfRecv(pf_in))

\* lines 175-177 and 187-188, 196: ACK; a command that is no query is done
PfAck ==
    /\ pf_pc = "ack"
    /\ PfLine
    /\ PfReply = << ack >>
    /\ pf' = [pf EXCEPT !.in = PfRest(pf_in),
                        !.r = pf_r \o PfRecv(pf_in),
                        !.replies = Append(pf_replies, PfReply),
                        !.pc = IF pf_query THEN "enq_value" ELSE "returned" ]
    /\ UNCHANGED relayVars
    /\ UNCHANGED lsVars

\* lines 175, 178: NAK
PfNak ==
    /\ pf_pc = "ack"
    /\ PfLine
    /\ PfReply = << nak >>
    /\ pf' = [pf EXCEPT !.in = PfRest(pf_in),
                        !.r = pf_r \o PfRecv(pf_in),
                        !.replies = Append(pf_replies, PfReply),
                        !.pc = "enq_error" ]
    /\ UNCHANGED relayVars
    /\ UNCHANGED lsVars

\* lines 185-186: anything else raises IOError
PfUnexpected ==
    /\ pf_pc = "ack"
    /\ PfLine
    /\ PfReply \notin { << ack >>, << nak >> }
    /\ pf' = [pf EXCEPT !.in = PfRest(pf_in),
                        !.r = pf_r \o PfRecv(pf_in),
                        !.replies = Append(pf_replies, PfReply),
                        !.pc = "raised",
                        !.exc = "IOError" ]
    /\ UNCHANGED relayVars
    /\ UNCHANGED lsVars

\* lines 180 and 190: self.s.sendall(enq)
PfSendEnq ==
    /\ pf_pc \in {"enq_error", "enq_value"}
    /\ pf' = [pf EXCEPT !.sent = Append(pf_sent, << enq >>),
                        !.r = <<>>,
                        !.pc = IF pf_pc = "enq_error" THEN "error" ELSE "value" ]
    /\ UNCHANGED relayVars
    /\ UNCHANGED lsVars

\* lines 180 and 190 raise: the gauge has closed the connection and
\* answered the command line with a reset
PfSendEnqError ==
    /\ pf_pc \in {"enq_error", "enq_value"}
    /\ pf_dev = "closed"
    /\ pf' = [pf EXCEPT !.pc = "raised",
                        !.exc = "OSError" ]
    /\ UNCHANGED relayVars
    /\ UNCHANGED lsVars

\* lines 181-184: the error word is kept in self.state['err'], cmd returns None
PfErrorCode ==
    /\ pf_pc = "error"
    /\ PfLine
    /\ pf' = [pf EXCEPT !.in = PfRest(pf_in),
                        !.r = pf_r \o PfRecv(pf_in),
                        !.replies = Append(pf_replies, PfReply),
                        !.err = PfReply,
                        !.ret = None,
                        !.pc = "returned" ]
    /\ UNCHANGED relayVars
    /\ UNCHANGED lsVars

\* lines 191-192: the value is returned as a str
PfValue ==
    /\ pf_pc = "value"
    /\ PfLine
    /\ pf' = [pf EXCEPT !.in = PfRest(pf_in),
                        !.r = pf_r \o PfRecv(pf_in),
                        !.replies = Append(pf_replies, PfReply),
                        !.ret = Decode(PfReply),
                        !.pc = "returned" ]
    /\ UNCHANGED relayVars
    /\ UNCHANGED lsVars

\* the gauge answers the next message it has received
GaugeAnswer ==
    /\ pf_dev = "up"
    /\ Len(pf_answers) < Len(pf_sent)
    /\ \E a \in IF pf_sent[Len(pf_answers) + 1] # << enq >>
                THEN {AckLine, NakLine, OtherLine}
                ELSE IF pf_answers[Len(pf_answers)] = NakLine
                THEN {ErrorLine} ELSE {ValueLine} :
          /\ pf' = [pf EXCEPT !.answers = Append(pf_answers, a),
                              !.wire = pf_wire \o a ]
    /\ UNCHANGED relayVars
    /\ UNCHANGED lsVars

\* the network delivers all the gauge has sent
GaugeDeliver ==
    /\ pf_wire # <<>>
    /\ pf' = [pf EXCEPT !.in = pf_in \o pf_wire,
                        !.wire = <<>> ]
    /\ UNCHANGED relayVars
    /\ UNCHANGED lsVars

\* the network delivers the first byte only for now
GaugeDeliverByte ==
    /\ Len(pf_wire) > 1
    /\ pf' = [pf EXCEPT !.in = Append(pf_in, Head(pf_wire)),
                        !.wire = Tail(pf_wire) ]
    /\ UNCHANGED relayVars
    /\ UNCHANGED lsVars

\* the gauge closes the connection
GaugeClose ==
    /\ pf_dev = "up"
    /\ pf_pc \notin {"returned", "raised"}
    /\ pf' = [pf EXCEPT !.dev = "closed" ]
    /\ UNCHANGED relayVars
    /\ UNCHANGED lsVars

PfCmd ==
    \/ PfCall \/ PfClear \/ PfClearEof \/ PfSendCmd
    \/ PfRecvMore \/ PfRecvEof \/ PfRecvTimeout
    \/ PfAck \/ PfNak \/ PfUnexpected
    \/ PfSendEnq \/ PfSendEnqError \/ PfErrorCode \/ PfValue

Gauge == GaugeAnswer \/ GaugeDeliver \/ GaugeDeliverByte \/ GaugeClose

PfNext == PfCmd \/ Gauge

PfSpec == PfInit /\ [][PfNext]_vars

\* the call runs in a live thread: a step it can take, it takes.  The gauge
\* and the network are under no obligation.
PfFairSpec == PfSpec /\ WF_vars(PfCmd)

PfTypeOK ==
    /\ pf_pc \in {"call", "clear", "ack", "enq_error", "enq_value", "error", "value",
                  "returned", "raised"}
    /\ pf_exc \in {"none", "timeout", "IOError", "OSError"}
    /\ pf_pc = "raised" <=> pf_exc # "none"
    /\ pf_dev \in {"up", "closed"}
    /\ Len(pf_answers) <= Len(pf_sent)
    /\ pc = Head(StartupOrder(pcan_type))

\* -------------------------------------------- namakanui/lakeshore.py: cmd
\* line 141: recv(4096)
LsRecvLen == 4096

\* what s.recv(4096) returns and what it leaves in the socket
LsRecv(b) == SubSeq(b, 1, IF Len(b) < LsRecvLen THEN Len(b) ELSE LsRecvLen)
LsRest(b) == SubSeq(b, Len(LsRecv(b)) + 1, Len(b))

\* %d: the decimal digits of n as bytes
RECURSIVE FormatInt(_)
FormatInt(n) == IF n < 10 THEN << 48 + n >> ELSE Append(FormatInt(n \div 10), 48 + (n % 10))

\* lines 123-133: the lines that set up the Prologix converter:
\* '++mode 1\n', '++addr %d\n', '++auto 1\n', '++eos 3\n', '++eoi 1\n'
GpibSetup(addr) ==
    << << 43, 43, 109, 111, 100, 101, 32, 49, LF >>,
       << 43, 43, 97, 100, 100, 114, 32 >> \o FormatInt(addr) \o << LF >>,
       << 43, 43, 97, 117, 116, 111, 32, 49, LF >>,
       << 43, 43, 101, 111, 115, 32, 51, LF >>,
       << 43, 43, 101, 111, 105, 32, 49, LF >> >>

\* the arguments of the calls: 'KRDG? 0' (line 101) and a command that is
\* no query, '*CLS', given with a line end
LsCommands == { << 75, 82, 68, 71, 63, 32, 48 >>, << 42, 67, 76, 83, LF >> }

\* self.gpib_addr of the configuration, where one is given
GpibAddrs == {NoGpib, 5, 12}

\* the instrument's answer: the readings, or junk after a command that is
\* no query
LsReplyLine == << 52, 46, 48, 44, 57, 48, CR, LF >>

\* the end of the stream is all that is left to read from the socket
LsEof == ls_in = <<>> /\ ls_wire = <<>> /\ ls_dev = "closed"

\* a call of cmd(c) begins; the instrument accepts connections or not
LsInit ==
    /\ RelayInit /\ pcan_type = "tcp" /\ PfOff
    /\ \E a \in LsCommands, g \in GpibAddrs, d \in {"up", "down"} :
          ls = [pc |-> "call", arg |-> a, gpib |-> g, dev |-> d,
                c |-> <<>>, sock |-> "none", opened |-> 0,
                in |-> <<>>, wire |-> <<>>, r |-> <<>>,
                sent |-> <<>>, answers |-> <<>>,
                ret |-> None, exc |-> "none", spun |-> FALSE]

\* lines 112-114
LsCall ==
    /\ ls_pc = "call"
    /\ ls' = [ls EXCEPT !.c = Strip(ls_arg),
                        !.pc = "socket" ]
    /\ UNCHANGED << relayVars, pfVars >>

\* lines 118-119: s = socket.socket()
LsSocket ==
    /\ ls_pc = "socket"
    /\ ls' = [ls EXCEPT !.sock = "open",
                        !.opened = ls_opened + 1,
                        !.pc = "connect" ]
    /\ UNCHANGED << relayVars, pfVars >>

\* where an exception raised in cmd ends up: the function has no try
\* statement, so the call is over, with s as it is
LsRaise == "raised"

\* line 120: s.connect succeeds
LsConnect ==
    /\ ls_pc = "connect"
    /\ ls_dev = "up"
    /\ ls' = [ls EXCEPT !.pc = IF ls_gpib # NoGpib THEN "setup" ELSE "send" ]
    /\ UNCHANGED << relayVars, pfVars >>

\* line 120 raises: the connection is refused or times out
LsConnectError ==
    /\ ls_pc = "connect"
    /\ ls_dev # "up"
    /\ ls' = [ls EXCEPT !.pc = LsRaise,
                        !.exc = "connect" ]
    /\ UNCHANGED << relayVars, pfVars >>

\* lines 121-133: the five lines for the converter go out
LsSetup ==
    /\ ls_pc = "setup"
    /\ ls' = [ls EXCEPT !.sent = ls_sent \o GpibSetup(ls_gpib),
                        !.pc = "send" ]
    /\ UNCHANGED << relayVars, pfVars >>

\* line 135: s.sendall(c + b'\r\n')
LsSend ==
    /\ ls_pc = "send"
    /\ ls' = [ls EXCEPT !.sent = Append(ls_sent, ls_c \o << CR, LF >>),
                        !.r = <<>>,
                        !.pc = "reply" ]
    /\ UNCHANGED << relayVars, pfVars >>

\* one of the sendall calls of lines 123-135 raises: the instrument has
\* closed the connection
LsSendError ==
    /\ ls_pc \in {"setup", "send"}
    /\ ls_dev = "closed"
    /\ ls' = [ls EXCEPT !.pc = LsRaise,
                        !.exc = "send" ]
    /\ UNCHANGED << relayVars, pfVars >>

\* lines 140-141: recv(4096) returns bytes and r still holds no CR LF
LsRecvMore ==
    /\ ls_pc = "reply"
    /\ ls_in # <<>>
    /\ ~ HasCRLF(ls_r \o LsRecv(ls_in))
    /\ ls' = [ls EXCEPT !.r = ls_r \o LsRecv(ls_in),
                        !.in = LsRest(ls_in) ]
    /\ UNCHANGED << relayVars, pfVars >>

\* lines 140-141: recv returns b'' at the end of the stream, r stays as it
\* is and the loop goes round again
LsRecvEof ==
    /\ ls_pc = "reply"
    /\ LsEof
    /\ ls' = [ls EXCEPT !.spun = TRUE ]
    /\ UNCHANGED << relayVars, pfVars >>

\* line 141 raises socket.timeout: nothing arrived within self.timeout
LsRecvTimeout ==
    /\ ls_pc = "reply"
    /\ ls_in = <<>>
    /\ ~ LsEof
    /\ ls' = [ls EXCEPT !.pc = LsRaise,
                        !.exc = "recv" ]
    /\ UNCHANGED << relayVars, pfVars >>

\* lines 140-141: the recv that brings CR LF ends the loop
LsReplyDone ==
    /\ ls_pc = "reply"
    /\ ls_in # <<>>
    /\ HasCRLF(ls_r \o LsRecv(ls_in))
    /\ ls' = [ls EXCEPT !.r = ls_r \o LsRecv(ls_in),
                        !.in = LsRest(ls_in),
                        !.pc = "close" ]
    /\ UNCHANGED << relayVars, pfVars >>

\* line 144: s.close()
CloseSocket(sock) == "closed"

\* lines 143-147: the socket is closed; a query returns the reply as a str
LsClose ==
    /\ ls_pc = "close"
    /\ ls' = [ls EXCEPT !.sock = CloseSocket(ls_sock),
                        !.ret = IF IsQuery(ls_c) THEN Decode(Strip(ls_r)) ELSE None,
                        !.pc = "returned" ]
    /\ UNCHANGED << relayVars, pfVars >>

\* after a failed call: when the caller has let go of the exception and
\* its traceback, the interpreter frees the frame of cmd and with it s,
\* whose finalizer closes the descriptor
LsFinalize ==
    /\ ls_pc = "raised"
    /\ ls_sock = "open"
    /\ ls' = [ls EXCEPT !.sock = "closed" ]
    /\ UNCHANGED << relayVars, pfVars >>

\* the instrument answers the command (with ++auto 1 it always does)
LsAnswer ==
    /\ ls_dev = "up"
    /\ ls_pc = "reply"
    /\ ls_answers = <<>>
    /\ ls' = [ls EXCEPT !.answers = << LsReplyLine >>,
                        !.wire = ls_wire \o LsReplyLine ]
    /\ UNCHANGED << relayVars, pfVars >>

\* the network delivers all the instrument has sent
LsDeliver ==
    /\ ls_wire # <<>>
    /\ ls' = [ls EXCEPT !.in = ls_in \o ls_wire,
                        !.wire = <<>> ]
    /\ UNCHANGED << relayVars, pfVars >>

\* the network delivers the first byte only for now
LsDeliverByte ==
    /\ Len(ls_wire) > 1
    /\ ls' = [ls EXCEPT !.in = Append(ls_in, Head(ls_wire)),
                        !.wire = Tail(ls_wire) ]
    /\ UNCHANGED << relayVars, pfVars >>

\* the instrument closes the connection ("disconnects us too quickly")
LsDisconnect ==
    /\ ls_dev = "up"
    /\ ls_pc \in {"setup", "send", "reply"}
    /\ ls' = [ls EXCEPT !.dev = "closed" ]
    /\ UNCHANGED << relayVars, pfVars >>

LsCmd ==
    \/ LsCall \/ LsSocket \/ LsConnect \/ LsConnectError
    \/ LsSetup \/ LsSend \/ LsSendError
    \/ LsRecvMore \/ LsRecvEof \/ LsRecvTimeout \/ LsReplyDone
    \/ LsClose \/ LsFinalize

LsInstrument == LsAnswer \/ LsDeliver \/ LsDeliverByte \/ LsDisconnect

LsNext == LsCmd \/ LsInstrument

LsSpec == LsInit /\ [][LsNext]_vars

LsTypeOK ==
    /\ ls_pc \in {"call", "socket", "connect", "setup", "send", "reply", "close",
                  "returned", "raised"}
    /\ ls_sock \in {"none", "open", "closed"}
    /\ ls_exc \in {"none", "connect", "send", "recv"}
    /\ ls_pc = "raised" <=> ls_exc # "none"
    /\ ls_dev \in {"up", "down", "closed"}
    /\ ls_opened \in 0 .. 1
    /\ pf_pc = "off"

\* ------------------------------------------------------------------ claims
NoReplyBytes(b) == \A i \in 1 .. Len(b) : b[i].src # "rep"

\* a and b have a byte in common
Overlap(a, b) ==
    \E i \in 1 .. Len(a), j \in 1 .. Len(b) :
        /\ a[i].src = b[j].src /\ a[i].cl = b[j].cl /\ a[i].n = b[j].n
        /\ a[i].lo < b[j].hi /\ b[j].lo < a[i].hi

IsPrefix(a, b) == Len(a) <= Len(b) /\ \A i \in 1 .. Len(a) : a[i] = b[i]

\* the startup operations that succeeded, in the order performed
StepsDone ==
    IF steps # <<>> /\ steps[Len(steps)] = "error"
    THEN SubSeq(steps, 1, Len(steps) - 1) ELSE steps

StartupFailed == \E i \in 1 .. Len(steps) : steps[i] = "error"

\* C1: mutual exclusion on the hardware link: at most one request is on its
\* way to the gateway, and while one is, no byte of the reply to an earlier
\* request is still unread (in the network or in the inbound socket).
C1_MutualExclusion ==
    /\ BLen(l2c) <= FrameLen
    /\ l2c # <<>> => NoReplyBytes(wire) /\ NoReplyBytes(c2l)

\* C2: reply pairing: every byte written to a client is a byte of the
\* gateway's reply to a request of that same client.
C2_ReplyPairing ==
    \A c \in Clients : \A i \in 1 .. Len(cout[c]) : \A j \in 1 .. Len(cout[c][i]) :
        cout[c][i][j].src = "rep" /\ cout[c][i][j].cl = c

\* C3: frame integrity: what is put on lan2can for a transaction is exactly
\* the 36 bytes read from the client, and what is written back to the client
\* is exactly what was read from can2lan for that transaction.
C3_FrameIntegrity ==
    \A c \in Clients :
        /\ Len(csent[c]) <= Len(creq[c])
        /\ \A i \in 1 .. Len(csent[c]) :
              csent[c][i] = creq[c][i] /\ BLen(csent[c][i]) = FrameLen
        /\ Len(cout[c]) <= Len(crep[c])
        /\ \A i \in 1 .. Len(cout[c]) : cout[c][i] = crep[c][i]

C3_Witness == \E c \in Clients : Len(csent[c]) >= 1 /\ Len(cout[c]) >= 1

\* C4: isolation of client failures: servicing the write of a reply to a
\* client whose connection was reset while its transaction was in flight
\* (the write fails) does not take the daemon out of the relay loop.
C4_ClientFailureIsolated ==
    [][\A c \in Clients :
          (pc = "dispatch" /\ c \in events /\ c \notin events'
             /\ reg[c] = "WRITE" /\ outb[c] # <<>> /\ Reset(c))
          => pc' \notin {"finally", "exited"}]_vars

\* C5: short-frame rejection: once a read from a client has yielded fewer
\* than 36 bytes, the connection is deregistered and closed, nothing more
\* is written to it, and no byte of the short read is on, or was ever put
\* on, lan2can.
C5_ShortFrameRejected ==
    [][\A c \in Clients :
          short'[c] =>
             /\ conn'[c] = "closed"
             /\ reg'[c] = "none"
             /\ cout'[c] = cout[c]
             /\ ~ Overlap(shortb'[c], l2c')
             /\ \A d \in Clients : \A i \in 1 .. Len(csent'[d]) :
                   ~ Overlap(shortb'[c], csent'[d][i])]_vars

\* C6: link loss is fatal: after a reply read that yielded zero bytes or
\* timed out (or a failed send) the daemon is in the finally clause or has
\* exited, and it exits with status 1.
C6_LinkLossFatal ==
    failed => /\ pc \in {"finally", "exited"}
              /\ pc = "exited" => exit = ExitError
              /\ pc = "finally" => exit = Running

C6_Witness ==
    /\ failed /\ pc = "exited" /\ exit = ExitError
    /\ \E c \in Clients : Len(csent[c]) > Len(crep[c])

\* C7: teardown: when the process has exited after a Bus Link failure, the
\* listener, both half-channels and every accepted client connection have
\* been closed.
C7_Teardown ==
    (failed /\ pc = "exited") =>
        /\ listener = "closed" /\ lan2can = "closed" /\ can2lan = "closed"
        /\ \A c \in Clients : conn[c] # "open"

\* C8: no recovery in place: after a Bus Link failure no step sends on
\* lan2can, reopens a half-channel, accepts a client or reads from one.
C8_NoRecovery ==
    [][failed =>
          /\ csent' = csent
          /\ BLen(l2c') <= BLen(l2c)
          /\ lan2can' \in {lan2can, "closed"}
          /\ can2lan' \in {can2lan, "closed"}
          /\ can2lan_listener' = can2lan_listener
          /\ conn' = conn
          /\ Len(backlog') >= Len(backlog)
          /\ creq' = creq
          /\ short' = short /\ shortb' = shortb]_vars

C8_Witness ==
    /\ failed /\ pc = "exited"
    /\ \E c \in Clients : reg[c] = "READ" /\ BLen(cin[c]) >= FrameLen
    /\ backlog # <<>>

\* C9 as stated: the client port is bound first, then the outbound
\* half-channel is connected, then the inbound one bound and accepted, then
\* clients are accepted.
ClaimedOrder(t) ==
    IF t = "tcp"
    THEN << "bind_listener", "connect_lan2can", "bind_can2lan", "accept_can2lan",
            "accept_client" >>
    ELSE << "bind_listener", "connect_lan2can", "bind_can2lan", "accept_client" >>

C9_ListenerBoundFirst == IsPrefix(StepsDone, ClaimedOrder(pcan_type))

\* C9 amended: the outbound half-channel is connected first, then the
\* inbound half-channel is bound and (tcp) accepted, then the client port is
\* bound, and only then are clients accepted; no run does otherwise.
CodeOrder(t) ==
    IF t = "tcp"
    THEN << "connect_lan2can", "bind_can2lan", "accept_can2lan", "bind_listener",
            "accept_client" >>
    ELSE << "connect_lan2can", "bind_can2lan", "bind_listener", "accept_client" >>

C9_StartupOrder ==
    /\ IsPrefix(StepsDone, CodeOrder(pcan_type))
    /\ (\E c \in Clients : conn[c] # "none") => StepsDone = CodeOrder(pcan_type)

C9_Witness == /\ StepsDone = CodeOrder(pcan_type)
              /\ \E c \in Clients : conn[c] = "open"

\* C10: startup failures are fatal before service: after a failed startup
\* operation the process has exited with status 1, no client connection was
\* accepted and nothing was read from a client.
C10_StartupFailureFatal ==
    StartupFailed =>
        /\ pc = "exited" /\ exit = ExitError
        /\ \A c \in Clients : conn[c] = "none" /\ creq[c] = <<>> /\ ~ short[c]
        /\ \A i \in 1 .. Len(steps) : steps[i] # "accept_client"

C10_Witness == StartupFailed /\ lan2can = "open" /\ pc = "exited"

\* C11: every transact invocation terminates: once messenger has been
\* entered (its drain step is next), the daemon gets out of messenger, with
\* a reply or with an exception, whatever the state of the half-channels.
C11_TransactTerminates ==
    (pc = "drain") ~> (pc \notin {"drain", "send", "recv_reply"})

\* C12: frame reading accumulates: the daemon closes a client connection
\* only when the client's stream has ended; a connection whose client is
\* still open (the rest of its frame is on the way) is never dropped for a
\* read of fewer than 36 bytes.
C12_FrameAccumulates ==
    \A c \in Clients : conn[c] = "closed" => client[c] # "open"

\* C13: every reply messenger returns, and every reply written to a client,
\* is exactly 36 bytes long.
C13_ReplyLength ==
    \A c \in Clients :
        /\ \A i \in 1 .. Len(crep[c]) : BLen(crep[c][i]) = FrameLen
        /\ \A i \in 1 .. Len(cout[c]) : BLen(cout[c][i]) = FrameLen

\* C14: drain before send: messenger is entered at its drain step, sends
\* only after the drain and reads the reply only after the send; no byte
\* that waited in can2lan when the transaction began is still there when the
\* request is sent, and none is part of the packet returned for the request.
C14_DrainBeforeSend ==
    [][/\ (pc' = "drain" /\ pc # "drain") => pc = "dispatch"
       /\ (pc' = "send" /\ pc # "send") => pc = "drain"
       /\ (pc' = "recv_reply" /\ pc # "recv_reply") => pc = "send"
       /\ csent' # csent => pc = "send" /\ ~ Overlap(stale, c2l) /\ ~ Overlap(stale, c2l')
       /\ \A c \in Clients :
             Len(crep'[c]) > Len(crep[c]) =>
                 /\ pc = "recv_reply"
                 /\ ~ Overlap(stale, crep'[c][Len(crep'[c])])]_vars

\* the gateway's greeting waited in can2lan when a transaction began, and
\* the transaction has returned a reply
C14_Witness ==
    /\ stale = Greeting /\ pc = "dispatch"
    /\ \E c \in Clients : Len(crep[c]) = 1 /\ outb[c] = crep[c][1]

\* C15: one outstanding request per client: when a full frame is read from
\* a client, the reply to every frame read from it before has been written
\* to it in full and nothing is left in its data.outb.
C15_OneOutstanding ==
    [][\A c \in Clients :
          Len(creq'[c]) > Len(creq[c]) =>
              /\ outb[c] = <<>>
              /\ Len(cout[c]) = Len(creq[c])
              /\ \A i \in 1 .. Len(cout[c]) : cout[c][i] = crep[c][i]]_vars

\* a client sent two frames back to back and the second has been read
C15_Witness ==
    \E c \in Clients : Len(creq[c]) = 2 /\ Len(cout[c]) = 1 /\ nsent[c] = 2

\* C16: per-client ordering: the i-th transaction run for a client carries
\* the i-th frame the client sent, and the i-th reply written to the client
\* is made of bytes of the gateway's reply to that i-th frame and of no other.
C16_PerClientOrder ==
    \A c \in Clients :
        /\ \A i \in 1 .. Len(csent[c]) : csent[c][i] = Frame(c, i)
        /\ \A i \in 1 .. Len(cout[c]) : \A j \in 1 .. Len(cout[c][i]) :
              /\ cout[c][i][j].src = "rep"
              /\ cout[c][i][j].cl = c
              /\ cout[c][i][j].n = i

\* C17: closed is terminal: a connection the daemon has closed stays closed
\* and out of the selector, no frame is read from it, no transaction is run
\* for it and nothing is written to it any more; and every connection
\* registered in the selector is an open one.
C17_ClosedIsTerminal ==
    [][\A c \in Clients :
          /\ reg'[c] # "none" => conn'[c] = "open"
          /\ conn[c] = "closed" =>
                /\ conn'[c] = "closed" /\ reg'[c] = "none"
                /\ c \notin events'
                /\ cin'[c] = cin[c]
                /\ creq'[c] = creq[c] /\ csent'[c] = csent[c] /\ crep'[c] = crep[c]
                /\ cout'[c] = cout[c] /\ outb'[c] = outb[c]
                /\ key' # c]_vars

\* a connection is closed while the daemon goes on serving another one,
\* whose reply waits to be written
C17_Witness ==
    \E c, d \in Clients :
        /\ conn[c] = "closed" /\ conn[d] = "open"
        /\ pc = "dispatch" /\ outb[d] # <<>>

\* C18: cancellation: a request is sent only when every earlier transaction
\* has had its reply read; and servicing a client that has disconnected
\* while its reply was waiting leaves the daemon in the relay loop, where
\* it goes on serving the other clients.
C18_Cancellation ==
    [][/\ csent' # csent => \A c \in Clients : Len(crep[c]) = Len(csent[c])
       /\ \A c \in Clients :
             (/\ pc = "dispatch" /\ c \in events /\ c \notin events'
              /\ client[c] \in {"fin", "reset", "finreset"}
              /\ Len(crep[c]) > Len(cout[c]))
             => pc' = "dispatch"]_vars

\* C19: dropping a client is a local event: the servicing of a client
\* whose read yields fewer than 36 bytes (a short frame, or zero bytes on a
\* close) leaves the listener registered and listening, leaves every other
\* connection, its registration and its pending reply as they were, puts
\* nothing on and takes nothing off the Bus Link, and leaves the daemon in
\* the event loop.
C19_DropIsLocal ==
    [][\A c \in Clients :
          (/\ pc = "dispatch" /\ c \in events /\ c \notin events'
           /\ reg[c] = "READ" /\ short'[c]) =>
              /\ registered' /\ listener' = "listening"
              /\ \A d \in Clients \ {c} :
                    reg'[d] = reg[d] /\ outb'[d] = outb[d] /\ conn'[d] = conn[d]
              /\ l2c' = l2c /\ c2l' = c2l /\ wire' = wire
              /\ csent' = csent /\ crep' = crep
              /\ lan2can' = lan2can /\ can2lan' = can2lan
              /\ pc' = "dispatch" /\ exit' = Running]_vars

\* C20: a request that is ready while another client's transaction is in
\* flight is held back: when client b's frame is sent on lan2can, every
\* other client a has had the gateway's reply to each of its requests read,
\* and the reply to its last request is stored in a's data.outb unless it
\* has been written to a already.
C20_HeldBack ==
    [][\A b \in Clients :
          Len(csent'[b]) > Len(csent[b]) =>
              \A a \in Clients \ {b} :
                  /\ Len(crep[a]) = Len(csent[a])
                  /\ \A i \in 1 .. Len(crep[a]) : crep[a][i] = ReplyTo(csent[a][i])
                  /\ Len(cout[a]) < Len(crep[a]) =>
                        /\ Len(cout[a]) = Len(crep[a]) - 1
                        /\ outb[a] = crep[a][Len(crep[a])]]_vars

\* C21: a receive error on a client connection is handled like a closed
\* connection: when sock.recv raises for client c (the connection was reset
\* and nothing is left to read), the servicing of c deregisters and closes
\* c, sends nothing to the gateway and leaves the daemon in the event loop.
C21_ReceiveErrorContained ==
    [][\A c \in Clients :
          (/\ pc = "dispatch" /\ c \in events /\ c \notin events'
           /\ reg[c] = "READ" /\ client[c] = "reset" /\ cin[c] = <<>>) =>
              /\ reg'[c] = "none" /\ conn'[c] = "closed"
              /\ csent' = csent /\ l2c' = l2c
              /\ pc' = "dispatch" /\ exit' = Running]_vars

\* C22: no data is read from a connection when it is accepted: the step
\* that accepts client c takes nothing out of c's socket and records no
\* read, registers c for read readiness with an empty data.outb, and leaves
\* c out of the events still to be serviced in this round, so that c is
\* first read after a later sel.select() has reported it.
C22_NoReadAtAccept ==
    [][\A c \in Clients :
          (conn[c] # "open" /\ conn'[c] = "open") =>
              /\ cin' = cin /\ creq' = creq /\ short' = short
              /\ reg'[c] = "READ" /\ outb'[c] = <<>>
              /\ c \notin events'
              /\ pc' = "dispatch"]_vars

\* a connection has just been accepted with a whole frame already waiting
\* in its socket, and nothing has been read from it
C22_Witness ==
    \E c \in Clients :
        /\ pc = "dispatch" /\ conn[c] = "open" /\ reg[c] = "READ"
        /\ c \notin events /\ BLen(cin[c]) = FrameLen
        /\ creq[c] = <<>> /\ ~ short[c] /\ outb[c] = <<>>

\* C23: registration invariant: every registered client connection is
\* registered for exactly one of read readiness and write readiness, for
\* write readiness exactly when its data.outb is not empty, so data.outb
\* is empty whenever it is registered for read readiness.
C23_RegistrationInvariant ==
    \A c \in Clients :
        reg[c] # "none" =>
            /\ reg[c] \in {"READ", "WRITE"}
            /\ reg[c] = "WRITE" <=> outb[c] # <<>>
            /\ reg[c] = "READ" => outb[c] = <<>>

\* one client waits for its reply to be written while another is
\* registered for reading
C23_Witness ==
    \E c, d \in Clients :
        /\ reg[c] = "WRITE" /\ outb[c] # <<>>
        /\ reg[d] = "READ" /\ outb[d] = <<>>

\* the number of entries that log holds for all clients together
RECURSIVE CountUpTo(_, _)
CountUpTo(log, n) == IF n = 0 THEN 0 ELSE Len(log[n]) + CountUpTo(log, n - 1)

Count(log) == CountUpTo(log, NumClients)

\* C24 as stated: at every point of a run as many frames have been sent on
\* lan2can as full 36-byte frames have been read from clients, and no more
\* replies have been written to clients than were read from the gateway.
C24_ForwardedExactlyOnce ==
    /\ Count(csent) = Count(creq)
    /\ Count(cout) <= Count(crep)

\* C24: each complete frame is forwarded at most once and in the
\* transaction it was read for: the frames sent for a client are the first
\* of the full frames read from it, at most one frame read from any client
\* has not been sent, which is the frame of the transaction in progress or
\* the frame the daemon failed on, so that the two numbers are equal
\* whenever the daemon is in the event loop between two handler calls; and
\* no client is written more replies than were read for it.
C24_ForwardedAtMostOnce ==
    /\ \A c \in Clients :
          /\ Len(csent[c]) <= Len(creq[c])
          /\ \A i \in 1 .. Len(csent[c]) : csent[c][i] = creq[c][i]
          /\ Len(cout[c]) <= Len(crep[c])
    /\ LET sent == Count(csent)
           read == Count(creq)
       IN  /\ sent <= read
           /\ read <= sent + 1
           /\ sent # read => pc \in {"drain", "send", "finally", "exited"}
    /\ pc \in {"drain", "send"} =>
          /\ Len(creq[key]) = Len(csent[key]) + 1
          /\ creq[key][Len(creq[key])] = to_femc

\* a frame of one client has been read and not yet sent, after a
\* transaction of another client was completed and its reply written
C24_Witness ==
    \E c, d \in Clients :
        /\ c # d /\ pc = "send" /\ key = c
        /\ Len(creq[c]) = Len(csent[c]) + 1
        /\ Len(csent[d]) = 1 /\ Len(cout[d]) = 1

\* the gateway has not answered within the timeout, or a half-channel to it
\* is closed
LinkFailed == failed \/ hw = "closed"

\* a client's connection has been reset, by the client or by its host in
\* answer to a reply written after the client had closed
ClientFailed == \E d \in Clients : client[d] \in {"reset", "finreset"}

\* C25: delivery liveness: while the gateway answers every request within
\* the timeout and no client fails, the k-th complete 36-byte frame read
\* from a connected client c is eventually followed by the k-th reply
\* written to c.
C25_DeliveryLiveness ==
    \A c \in Clients : \A k \in 1 .. MaxFrames :
        (Len(creq[c]) >= k) ~> (Len(cout[c]) >= k \/ LinkFailed \/ ClientFailed)

\* two frames of one client have been read and each has been answered,
\* with the gateway up and no client failed
C25_Witness ==
    \E c \in Clients :
        /\ Len(creq[c]) = MaxFrames /\ Len(cout[c]) = MaxFrames
        /\ ~ LinkFailed /\ ~ ClientFailed

\* the connections registered with the selector
Connected == {d \in Clients : reg[d] # "none"}

\* C26: bounded bypass: sel.select() is called again only when every event
\* of the round has been handled, an event once handled is not handled
\* again in the round and none is added to it; so while a request of client
\* c is ready, fewer transactions of other clients are completed than
\* there are connected clients.
C26_BoundedBypass ==
    [][/\ (pc' = "select" /\ pc # "select") => events = {}
       /\ pc # "select" => events' \subseteq events
       /\ (pc = "select" /\ pc' # "select") => events' = ReadySet
       /\ \A c \in Clients :
             waited'[c] > 0 => waited'[c] <= Cardinality(Connected') - 1]_vars

\* client c's request has been ready while every other client had a
\* transaction completed, and c is served in this round
C26_Witness ==
    \E c \in Clients :
        /\ waited[c] = NumClients - 1 /\ Waiting(c)
        /\ pc = "dispatch" /\ c \in events

\* C27: a transaction performed for client c changes only c's data.outb
\* and c's registration: from the read of c's frame to the storing of the
\* reply, data.outb and the registration of every other client stay as
\* they are; and a reply waiting in data.outb changes in no other way than
\* by being written to its own client.
C27_TransactionLocal ==
    [][/\ \A c \in Clients :
             (\/ pc \in {"drain", "send", "recv_reply"} /\ key = c
              \/ pc = "dispatch" /\ pc' = "drain" /\ key' = c) =>
                 \A d \in Clients \ {c} : outb'[d] = outb[d] /\ reg'[d] = reg[d]
       /\ \A d \in Clients :
             (outb[d] # <<>> /\ outb'[d] # outb[d]) =>
                 /\ outb'[d] = <<>>
                 /\ cout'[d] = Append(cout[d], outb[d])]_vars

\* a transaction of client c has just been completed while the reply to
\* client d was waiting to be written, and both replies are in place
C27_Witness ==
    \E c, d \in Clients :
        /\ c # d /\ pc = "dispatch"
        /\ reg[c] = "WRITE" /\ reg[d] = "WRITE"
        /\ Len(crep[c]) = 1 /\ outb[c] = crep[c][1]
        /\ Len(crep[d]) = 1 /\ outb[d] = crep[d][1]
        /\ outb[c] # outb[d]

\* C28: the daemon never exits with status 0: once relay() has been
\* entered the process is running, or in the finally clause, or it has
\* exited with status 1 with the listener and both half-channels closed;
\* and a step that leaves the event loop leads to the finally clause.
C28_ExitStatus ==
    /\ exit # 0
    /\ pc = "exited" => exit = ExitError
    /\ pc # "exited" => exit = Running
    /\ (registered /\ pc = "exited") =>
          /\ exit = 1
          /\ listener = "closed" /\ lan2can = "closed" /\ can2lan = "closed"
    /\ registered => pc \in {"select", "dispatch", "drain", "send", "recv_reply",
                             "finally", "exited"}

\* the daemon has exited from the relay loop on a client's reset
\* connection, with the link to the gateway in order
C28_Witness ==
    /\ pc = "exited" /\ registered /\ ~ failed /\ hw = "up"
    /\ \E c \in Clients : client[c] \in {"reset", "finreset"}

\* C29: a client whose input is a complete 36-byte frame followed by a
\* partial frame: at the step that drops client c for the partial frame,
\* every complete frame read from c has had its transaction and the reply
\* read for it has been written to c; the step sends nothing to the
\* gateway, and neither does any other step send anything but the 36 bytes
\* of a complete frame.
C29_ReplyBeforeDrop ==
    [][/\ \A c \in Clients :
             (/\ pc = "dispatch" /\ c \in events /\ c \notin events'
              /\ reg[c] = "READ" /\ conn'[c] = "closed"
              /\ cin[c] # <<>> /\ Len(creq[c]) >= 1) =>
                 /\ Len(csent[c]) = Len(creq[c])
                 /\ Len(crep[c]) = Len(creq[c])
                 /\ Len(cout[c]) = Len(creq[c])
                 /\ \A i \in 1 .. Len(cout[c]) : cout[c][i] = crep[c][i]
                 /\ outb[c] = <<>>
                 /\ csent' = csent /\ l2c' = l2c
       /\ csent' # csent =>
             /\ BLen(to_femc) = FrameLen
             /\ \A c \in Clients : ~ Overlap(to_femc, shortb[c])
       /\ l2c' # l2c => (csent' # csent \/ BLen(l2c') < BLen(l2c))]_vars

\* client c sent a frame and the first part of a second one; the reply to
\* the first has been written to c, and c has been dropped for the second
C29_Witness ==
    \E c \in Clients :
        /\ conn[c] = "closed" /\ client[c] = "open" /\ nsent[c] = 2
        /\ Len(creq[c]) = 1 /\ Len(csent[c]) = 1 /\ Len(cout[c]) = 1
        /\ short[c] /\ BLen(shortb[c]) = FragLen
        /\ Overlap(shortb[c], << Seg("req", c, 2, 0, FrameLen) >>)

\* what a finished call of cmd has done, by the first reply it read
CmdOutcome ==
    LET query == \E i \in 1 .. Len(pf_arg) : pf_arg[i] = 63
        first == pf_replies[1]
    IN  /\ pf_ret # None => (pf_pc = "returned" /\ query /\ first = << 6 >>)
        /\ pf_err # <<>> => (pf_pc = "returned" /\ first = << 21 >>)
        /\ (pf_pc = "returned" /\ first = << 6 >> /\ query) =>
              /\ Len(pf_sent) = 2 /\ pf_sent[2] = << 5 >>
              /\ Len(pf_replies) = 2 /\ pf_replies[2] = Strip(pf_answers[2])
              /\ pf_ret = [type |-> "str", chars |-> pf_replies[2]]
              /\ pf_err = <<>>
        /\ (pf_replies # <<>> /\ first = << 6 >> /\ ~ query) =>
              /\ pf_pc = "returned" /\ pf_ret = None /\ pf_err = <<>>
              /\ Len(pf_sent) = 1 /\ Len(pf_replies) = 1
        /\ (pf_pc = "returned" /\ first = << 21 >>) =>
              /\ Len(pf_sent) = 2 /\ pf_sent[2] = << 5 >>
              /\ Len(pf_replies) = 2 /\ pf_replies[2] = Strip(pf_answers[2])
              /\ pf_err = pf_replies[2]
              /\ pf_ret = None
        /\ (pf_replies # <<>> /\ first \notin { << 6 >>, << 21 >> }) =>
              /\ pf_pc = "raised" /\ pf_exc = "IOError"
              /\ Len(pf_sent) = 1 /\ Len(pf_replies) = 1
              /\ pf_ret = None /\ pf_err = <<>>
        /\ pf_pc = "returned" => pf_replies # <<>> /\ first \in { << 6 >>, << 21 >> }

\* C30: the handshake of Pfeiffer.cmd: the first thing sent is the stripped
\* command without its question marks and with CR LF, and it is sent when
\* nothing is left to read; nothing more is sent before one reply has been
\* read, and then only ENQ, once, after NAK or after ACK for a query; an
\* ACK for a query ends in the value being returned, an ACK otherwise in
\* None with nothing more sent, a NAK in the error word stored in
\* state['err'] and None returned, any other reply in IOError with no ENQ.
C30_CmdHandshake ==
    [][/\ (pf_sent = <<>> /\ pf_sent' # <<>>) =>
             /\ pf_in = <<>>
             /\ pf_sent' = << SelectSeq(Strip(pf_arg), LAMBDA x : x # 63) \o << 13, 10 >> >>
       /\ (pf_sent # <<>> /\ pf_sent' # pf_sent) =>
             /\ Len(pf_sent) = 1 /\ pf_sent' = Append(pf_sent, << 5 >>)
             /\ Len(pf_replies) = 1
             /\ \/ pf_replies[1] = << 21 >>
                \/ pf_replies[1] = << 6 >> /\ \E i \in 1 .. Len(pf_arg) : pf_arg[i] = 63
       /\ CmdOutcome']_vars

\* a query given with white space around it has been answered with ACK and,
\* after ENQ, with the value, which the call returned
C30_Witness ==
    /\ pf_pc = "returned" /\ pf_arg = << 32, 80, 82, 50, 63, 10 >>
    /\ pf_sent = << << 80, 82, 50, 13, 10 >>, << 5 >> >>
    /\ pf_replies = << << 6 >>, << 48, 44, 49 >> >>
    /\ pf_ret = [type |-> "str", chars |-> << 48, 44, 49 >>]

\* C31: reading an instrument reply terminates: a call of reply() that is
\* waiting for CR LF eventually returns a reply or raises, also when the
\* instrument closes the connection before CR LF has arrived.
C31_ReplyTerminates ==
    (pf_pc \in {"ack", "error", "value"}) ~> (pf_pc \notin {"ack", "error", "value"})

\* C32: Lakeshore.cmd uses a fresh connection for every command: a call
\* that is over, whether it has returned or has failed with a connect,
\* send or receive error, has created exactly one socket and that socket
\* is closed.
C32_FreshConnection ==
    ls_pc \in {"returned", "raised"} => (ls_opened = 1 /\ ls_sock = "closed")

====
